---- MODULE Spec2Model ----
(***************************************************************************)
(* State-machine model of tools/evemu-play.c: the evemu-device and         *)
(* evemu-play commands (main, setup_realtime_cpu, device, evemu_device,    *)
(* create_device, open_evemu_device, open_and_hold_device, play,           *)
(* play_from_stdin, play_from_file).                                       *)
(*                                                                         *)
(* One run of the program is a record (its program counter, its locals,    *)
(* the process state it touches and the logs of what it did).  Every step  *)
(* of the code is an operator from a run and the outcome of the call made  *)
(* at that step to the run after the step; an action applies the operator  *)
(* to the variable "run" for some outcome.  The variable "twin" is a       *)
(* second run of the same command line that sees the same outcome of every *)
(* call except the three tuning calls (used for the non-interference       *)
(* property); under Spec it never starts.                                  *)
(*                                                                         *)
(* evemu_play itself belongs to the library and not to this file: its      *)
(* replay loop is modelled from section 4.3 of the design.                 *)
(***************************************************************************)
EXTENDS Integers, Sequences, FiniteSets, TLC

VARIABLES run, twin

vars == <<run, twin>>

(* ------------------------------ bounds --------------------------------- *)

\* errno values the library and system calls may leave behind: 1..MaxErrno
MaxErrno == 2
\* largest number of positive read() results the held node delivers
MaxReads == 3
\* process ids: 1..MaxPid
MaxPid == 2
\* start offsets a user may pass as argv[2]: 0..MaxOffset
MaxOffset == 1
\* largest argc
MaxArgc == 4
\* longest recording, in events
MaxEvents == 3
\* recorded timestamps: 0..MaxTs
MaxTs == 2

(* ----------------------------- constants ------------------------------- *)

ENOMEM == 12

Errnos == 1..MaxErrno
Pids == 1..MaxPid
Offsets == 0..MaxOffset
Progs == {"evemu-device", "lt-evemu-device", "evemu-play"}
\* device names a description may carry, as token sequences (<<>> is the
\* empty string)
Names == {<<>>, <<"vtest">>}
\* descriptors and streams of the process
Fds == {"desc", "target", "node"}

Op(o, a, v) == [op |-> o, arg |-> a, val |-> v]

(* -------------------------- descriptor table --------------------------- *)

\* open()/fopen() succeeded on descriptor f
opened(s, f) == [s EXCEPT !.fdst[f] = "open"]

\* close(f) / fclose(stream over f); f = "-1" is close(-1)
closed(s, f) ==
    IF f = "-1"
    THEN [s EXCEPT !.closeBad = @ + 1]
    ELSE [s EXCEPT !.fdst[f] = "closed", !.closes[f] = @ + 1]

\* evemu_destroy(dev): the uinput device is unregistered, the handle stays
destroyed(s) == [s EXCEPT !.registered = FALSE, !.destroys = @ + 1]

\* evemu_delete(dev): unregisters the device if needed and frees the handle
deleted(s) ==
    [s EXCEPT !.registered = FALSE, !.handle = "freed", !.deletes = @ + 1]

log(s, o, a, v) == [s EXCEPT !.ops = Append(@, Op(o, a, v))]

perr(s, line) == [s EXCEPT !.err = Append(@, line)]

exit(s, code) == [s EXCEPT !.pc = "exit", !.status = code]

(* ------------------------- setup_realtime_cpu -------------------------- *)

tuneStep(s, step, ok, next) ==
    LET t == [s EXCEPT !.tuned = Append(@, [step |-> step, ok |-> ok]),
                       !.pc = next]
    IN  IF ok THEN t ELSE perr(t, step)

\* sched_setaffinity giving up on the other tuning steps when it fails
sched_setaffinity_abort(s, ok) ==
    tuneStep(s, "sched_setaffinity", ok,
             IF ok THEN "sched_setscheduler" ELSE "main")

sched_setaffinity(s, ok) ==
    tuneStep(s, "sched_setaffinity", ok, "sched_setscheduler")

sched_setscheduler(s, ok) ==
    tuneStep(s, "sched_setscheduler", ok, "mlockall")

\* mlockall ending the process when it fails
mlockall_fatal(s, ok) ==
    IF ok THEN tuneStep(s, "mlockall", ok, "main")
    ELSE exit(tuneStep(s, "mlockall", ok, "main"), -1)

mlockall(s, ok) ==
    tuneStep(s, "mlockall", ok, "main")

(* -------------------------------- main --------------------------------- *)

main(s, o) ==
    IF s.prog \in {"evemu-device", "lt-evemu-device"}
    THEN [s EXCEPT !.pc = "device"]
    ELSE [s EXCEPT !.pc = "play"]

(* ---------------------------- create_device ---------------------------- *)

\* dev = evemu_new(NULL); ret starts as -ENOMEM
evemu_new(s, ok) ==
    LET t == log([s EXCEPT !.ret = -ENOMEM], "evemu_new", "", 0)
    IN  IF ok
        THEN [t EXCEPT !.dev = "dev", !.handle = "allocated",
                       !.pc = "evemu_read"]
        ELSE [t EXCEPT !.dev = "NULL", !.pc = "create_device_out"]

\* ret = evemu_read(dev, fp); if (ret <= 0) goto out;
\* o.res is the result, o.name the name the description carries,
\* o.errno the errno a failed read leaves
evemu_read(s, o) ==
    LET t == log([s EXCEPT !.ret = o.res], "evemu_read", "", o.res)
    IN  IF o.res <= 0
        THEN [t EXCEPT !.errno = o.errno, !.failErrno = o.errno,
                       !.failed = TRUE, !.pc = "create_device_out"]
        ELSE [t EXCEPT !.name = o.name, !.descName = o.name,
                       !.pc = "evemu_set_name"]

\* evemu_set_name without the synthetic name for a nameless description
evemu_set_name_keep(s, o) ==
    [s EXCEPT !.pc = "evemu_create_managed"]

\* if (strlen(evemu_get_name(dev)) == 0) evemu_set_name(dev, "evemu-<pid>")
evemu_set_name(s, o) ==
    IF s.name = <<>>
    THEN [s EXCEPT !.name = <<"evemu-", s.pid>>,
                   !.pc = "evemu_create_managed"]
    ELSE [s EXCEPT !.pc = "evemu_create_managed"]

\* ret = evemu_create_managed(dev); if (ret < 0) goto out;
evemu_create_managed(s, o) ==
    LET t == log([s EXCEPT !.ret = o.res, !.regName = s.name,
                           !.pc = "create_device_out"],
                 "evemu_create_managed", "", o.res)
    IN  IF o.res < 0
        THEN [t EXCEPT !.errno = o.errno, !.failErrno = o.errno,
                       !.failed = TRUE]
        ELSE [t EXCEPT !.registered = TRUE]

\* where create_device returns to
create_device_return(s) ==
    [s EXCEPT !.pc = IF s.caller = "evemu_device"
                     THEN "evemu_device" ELSE "play_from_file"]

\* create_device_out without the restore of errno after evemu_destroy
create_device_out_noRestore(s, e) ==
    IF s.ret # 0 /\ s.dev # "NULL"
    THEN LET t == destroyed([s EXCEPT !.errno = e, !.cleanupErrno = e,
                                      !.cleaned = TRUE])
         IN  create_device_return(
                 [log(t, "evemu_destroy", "", 0) EXCEPT !.dev = "NULL"])
    ELSE create_device_return(s)

\* out: if (ret && dev) { saved_errno = errno; evemu_destroy(dev);
\*                       dev = NULL; errno = saved_errno; }  return dev;
\* e is the errno evemu_destroy leaves behind
create_device_out(s, e) ==
    IF s.ret # 0 /\ s.dev # "NULL"
    THEN LET saved_errno == s.errno
             t == destroyed([s EXCEPT !.errno = e, !.cleanupErrno = e,
                                      !.cleaned = TRUE])
         IN  create_device_return(
                 [log(t, "evemu_destroy", "", 0)
                      EXCEPT !.dev = "NULL", !.errno = saved_errno])
    ELSE create_device_return(s)

(* -------------------------- open_evemu_device -------------------------- *)

\* open_evemu_device_return with play_from_file returning at once, without
\* its teardown, when the node could not be opened
open_evemu_device_return_early(s, fd) ==
    IF s.caller = "evemu_device"
    THEN [s EXCEPT !.fd = fd,
                   !.pc = IF fd = "-1" THEN "evemu_delete" ELSE "read"]
    ELSE [s EXCEPT !.fd = fd,
                   !.pc = IF fd = "-1" THEN "play_close" ELSE "evemu_play"]

\* open_evemu_device_return with play_from_file going on to the replay
\* without looking at the descriptor
open_evemu_device_return_noCheck(s, fd) ==
    IF s.caller = "evemu_device"
    THEN [s EXCEPT !.fd = fd,
                   !.pc = IF fd = "-1" THEN "evemu_delete" ELSE "read"]
    ELSE [s EXCEPT !.fd = fd, !.pc = "evemu_play"]

\* the caller's branch on the descriptor open_evemu_device returned
open_evemu_device_return(s, fd) ==
    IF s.caller = "evemu_device"
    THEN \* open_and_hold_device: if (fd < 0) return;
         [s EXCEPT !.fd = fd,
                   !.pc = IF fd = "-1" THEN "evemu_delete" ELSE "read"]
    ELSE \* play_from_file: if (fd < 0) goto out;
         [s EXCEPT !.fd = fd,
                   !.pc = IF fd = "-1" THEN "play_from_file_out"
                          ELSE "evemu_play"]

\* device_node = evemu_get_devnode(dev); a node exists only for a
\* registered device
evemu_get_devnode(s, ok) ==
    LET t == log(s, "evemu_get_devnode", "", 0)
    IN  IF ok /\ s.registered
        THEN [t EXCEPT !.pc = "open_node"]
        ELSE open_evemu_device_return(
                 perr(t, "can not determine device node"), "-1")

\* fd = open(device_node, O_RDWR)
open_node(s, o) ==
    LET t == log(s, "open", "node", 0)
    IN  IF o.ok
        THEN open_evemu_device_return(opened(t, "node"), "node")
        ELSE open_evemu_device_return(
                 perr([t EXCEPT !.errno = o.errno], "error opening node"),
                 "-1")

(* ------------------------ open_and_hold_device ------------------------- *)

\* read with the loop going on at end of file (>= 0 instead of > 0)
read_pastEof(s, res) ==
    LET t == log([s EXCEPT !.reads = @ + 1, !.lastRead = res],
                 "read", s.fd, res)
    IN  IF res > 0
        THEN [t EXCEPT !.posReads = @ + 1]
        ELSE IF res = 0 THEN t ELSE [t EXCEPT !.pc = "hold_close"]

\* while ((ret = read(fd, data, sizeof(data))) > 0) ;
read(s, res) ==
    LET t == log([s EXCEPT !.reads = @ + 1, !.lastRead = res],
                 "read", s.fd, res)
    IN  IF res > 0
        THEN [t EXCEPT !.posReads = @ + 1]
        ELSE [t EXCEPT !.pc = "hold_close"]

\* close(fd);
hold_close(s, o) ==
    [closed(log(s, "close", s.fd, 0), s.fd)
        EXCEPT !.pc = "evemu_delete", !.held = TRUE]

(* ----------------------------- evemu_device ---------------------------- *)

\* evemu_device deleting the device before it is held
evemu_device_deleteFirst(s, o) ==
    IF s.dev = "NULL"
    THEN [s EXCEPT !.evret = -1, !.pc = "device_ret"]
    ELSE [deleted(log(s, "evemu_delete", "", 0))
             EXCEPT !.pc = "evemu_get_devnode"]

\* dev = create_device(fp); if (dev == NULL) return -1;
evemu_device(s, o) ==
    IF s.dev = "NULL"
    THEN [s EXCEPT !.evret = -1, !.pc = "device_ret"]
    ELSE [s EXCEPT !.pc = "evemu_get_devnode"]

\* evemu_delete(dev); return 0;
evemu_delete(s, o) ==
    [deleted(log(s, "evemu_delete", "", 0))
        EXCEPT !.evret = 0, !.pc = "device_ret"]

(* -------------------------------- device ------------------------------- *)

\* argc check and fp = fopen(argv[1], "r")
device(s, o) ==
    IF s.argc < 2
    THEN exit(perr(s, "usage"), -1)
    ELSE LET t == log(s, "fopen", "desc", 0)
         IN  IF ~o.ok
             THEN exit(perr([t EXCEPT !.errno = o.errno],
                            "could not open file"), -1)
             ELSE [opened(t, "desc") EXCEPT !.caller = "evemu_device",
                                            !.pc = "evemu_new"]

\* ret = evemu_device(fp); if (ret <= 0) { error; return -1; }
\* fclose(fp); return 0;
device_ret(s, o) ==
    IF s.evret <= 0
    THEN exit(perr(s, "could not create device"), -1)
    ELSE exit(closed(log(s, "fclose", "desc", 0), "desc"), 0)

(* ------------------------------ evemu_play ----------------------------- *)

Max(a, b) == IF a >= b THEN a ELSE b

\* recordings: at most MaxEvents timestamps, in recorded (non-decreasing)
\* order
Recordings ==
    UNION {{r \in [1..n -> 0..MaxTs] :
               \A i \in 1..n : i > 1 => r[i - 1] <= r[i]} : n \in 0..MaxEvents}

\* the instant, counted from the start of the session, at which record i is
\* due: its distance from the first record, moved by the start offset
Target(s, i) == (s.events[i] - s.events[1]) - s.playOffset

\* evemu_play(src, fd, offset) begins a session on recording rec
evemu_play_start(s, from, fd, offset, rec) ==
    [s EXCEPT !.played = @ + 1, !.playSrc = from, !.playFd = fd,
              !.playOffset = offset, !.events = rec, !.next = 1,
              !.now = 0, !.writes = <<>>, !.pc = "evemu_play_event"]

\* evemu_play_event dropping a record that is already overdue
evemu_play_event_skipLate(s, ok) ==
    IF s.next > Len(s.events)
    THEN [s EXCEPT !.playret = 0, !.pc = "evemu_play_ret"]
    ELSE IF Target(s, s.next) < s.now
         THEN [s EXCEPT !.next = @ + 1]
         ELSE LET at == Max(s.now, Target(s, s.next))
              IN  IF ok
                  THEN [s EXCEPT !.now = at, !.next = @ + 1,
                                 !.writes = Append(@,
                                     [ev |-> s.next,
                                      target |-> Target(s, s.next),
                                      at |-> at])]
                  ELSE [s EXCEPT !.now = at, !.playret = -1,
                                 !.pc = "evemu_play_ret"]

\* one turn of the replay loop: at the end of the stream the session ends
\* with success; otherwise the engine sleeps until the next record is due
\* (never a negative time) and writes it to the sink; a failed or short
\* write (~ok) ends the session with an error
evemu_play_event(s, ok) ==
    IF s.next > Len(s.events)
    THEN [s EXCEPT !.playret = 0, !.pc = "evemu_play_ret"]
    ELSE LET at == Max(s.now, Target(s, s.next))
         IN  IF ok
             THEN [s EXCEPT !.now = at, !.next = @ + 1,
                            !.writes = Append(@,
                                [ev |-> s.next,
                                 target |-> Target(s, s.next),
                                 at |-> at])]
             ELSE [s EXCEPT !.now = at, !.playret = -1,
                            !.pc = "evemu_play_ret"]

\* the callers' test of the result: if (ret != 0) fprintf(stderr, ...);
\* play_from_stdin then returns ret, play_from_file goes on to out:
evemu_play_ret(s, o) ==
    LET t == IF s.playSrc = "stdin"
             THEN [s EXCEPT !.pfret = s.playret, !.pc = "play_close"]
             ELSE [s EXCEPT !.pc = "play_from_file_out"]
    IN  IF s.playret # 0 THEN perr(t, "could not replay device") ELSE t

(* ---------------------------- play_from_stdin -------------------------- *)

\* play_from_stdin passing the offset of the command line on
play_from_stdin_offset(s, rec) ==
    evemu_play_start(log(s, "evemu_play", "stdin", s.offset),
                     "stdin", "target", s.offset, rec)

\* start_offset_us = 0; ret = evemu_play(stdin, fd, start_offset_us);
play_from_stdin(s, rec) ==
    evemu_play_start(log(s, "evemu_play", "stdin", 0),
                     "stdin", "target", 0, rec)

(* ---------------------------- play_from_file --------------------------- *)

\* fp = fdopen(recording_fd, "r")
fdopen(s, o) ==
    LET t == log(s, "fdopen", "target", 0)
    IN  IF ~o.ok
        THEN [perr([t EXCEPT !.errno = o.errno], "could not open file")
                 EXCEPT !.pfret = -1, !.pc = "play_close"]
        ELSE [t EXCEPT !.fp = TRUE, !.caller = "play_from_file",
                       !.pc = "evemu_new"]

\* dev = create_device(fp); if (!dev) { error; fclose(fp); return -1; }
\* fd = open_evemu_device(dev);
play_from_file(s, o) ==
    IF s.dev = "NULL"
    THEN [closed(log(perr(s, "could not create device"),
                     "fclose", "target", 0), "target")
             EXCEPT !.pfret = -1, !.pc = "play_close"]
    ELSE [s EXCEPT !.created = TRUE, !.pc = "evemu_get_devnode"]

\* fseek(fp, 0, SEEK_SET); ret = evemu_play(fp, fd, start_offset_us);
evemu_play(s, rec) ==
    evemu_play_start(log(log(s, "fseek", "target", 0),
                         "evemu_play", "target", s.offset),
                     "fp", s.fd, s.offset, rec)

\* out: evemu_delete(dev); fclose(fp); close(fd); return 0;
play_from_file_out(s, o) ==
    LET a == deleted(log(s, "evemu_delete", "", 0))
        b == closed(log(a, "fclose", "target", 0), "target")
        c == closed(log(b, "close", s.fd, 0), s.fd)
    IN  [c EXCEPT !.pfret = 0, !.pfdone = TRUE, !.pc = "play_close"]

(* --------------------------------- play -------------------------------- *)

\* argc check and fd = open(argv[1], O_RDWR)
play(s, o) ==
    IF s.argc < 2 \/ s.argc > 3
    THEN exit(perr(s, "usage"), -1)
    ELSE LET t == log(s, "open", "target", 0)
         IN  IF ~o.ok
             THEN exit(perr([t EXCEPT !.errno = o.errno],
                            "could not open file or device"), -1)
             ELSE [opened(t, "target") EXCEPT !.pc = "fstat"]

\* fstat with the S_ISCHR test inverted
fstat_inverted(s, o) ==
    LET t == log(s, "fstat", "target", 0)
    IN  IF ~o.ok
        THEN exit(perr([t EXCEPT !.errno = o.errno],
                       "failed to look at file"), -1)
        ELSE [t EXCEPT !.statted = TRUE, !.chr = o.chr,
                       !.argOffset = o.offset,
                       !.offset = IF s.argc = 3 THEN o.offset ELSE 0,
                       !.pc = IF o.chr THEN "fdopen" ELSE "play_from_stdin"]

\* fstat(fd, &st); start_offset_us = atol(argv[2]) when argc == 3;
\* if (S_ISCHR(st.st_mode)) play_from_stdin(fd); else play_from_file(...)
\* o.ok: fstat succeeded, o.chr: S_ISCHR, o.offset: atol(argv[2])
fstat(s, o) ==
    LET t == log(s, "fstat", "target", 0)
    IN  IF ~o.ok
        THEN exit(perr([t EXCEPT !.errno = o.errno],
                       "failed to look at file"), -1)
        ELSE [t EXCEPT !.statted = TRUE, !.chr = o.chr,
                       !.argOffset = o.offset,
                       !.offset = IF s.argc = 3 THEN o.offset ELSE 0,
                       !.pc = IF o.chr THEN "play_from_stdin" ELSE "fdopen"]

\* play_close returning what play_from_stdin / play_from_file returned
play_close_returnsRet(s, o) ==
    exit(closed(log(s, "close", "target", 0), "target"), s.pfret)

\* close(fd); return 0;
play_close(s, o) ==
    exit(closed(log(s, "close", "target", 0), "target"), 0)

(* ------------------------------ the runs ------------------------------- *)

\* a process just started as prog with argc arguments
Start(prog, argc, pid) ==
    [pc |-> "sched_setaffinity", prog |-> prog, argc |-> argc, pid |-> pid,
     tuned |-> <<>>, ops |-> <<>>, err |-> <<>>, status |-> 0,
     errno |-> 0, failErrno |-> 0, cleanupErrno |-> 0,
     failed |-> FALSE, cleaned |-> FALSE,
     fdst |-> [f \in Fds |-> "unopened"], closes |-> [f \in Fds |-> 0],
     closeBad |-> 0, fp |-> FALSE, fd |-> "-1",
     dev |-> "NULL", handle |-> "none", registered |-> FALSE,
     destroys |-> 0, deletes |-> 0, ret |-> 0, caller |-> "",
     name |-> <<>>, descName |-> <<>>, regName |-> <<>>,
     reads |-> 0, posReads |-> 0, lastRead |-> 1, held |-> FALSE,
     evret |-> 0, pfret |-> 0, pfdone |-> FALSE, created |-> FALSE,
     statted |-> FALSE, chr |-> FALSE, offset |-> 0,
     playret |-> 0, played |-> 0, playSrc |-> "", playFd |-> "",
     playOffset |-> 0, argOffset |-> 0,
     events |-> <<>>, next |-> 1, now |-> 0, writes |-> <<>>]

\* the twin before it starts
Idle == [Start("evemu-play", 1, 1) EXCEPT !.pc = "idle"]

\* the twin takes the step the run takes when it is at the same place at,
\* and then moves to t; otherwise it stays where it is
Follow(at, t) == IF twin.pc = at THEN t ELSE twin

Outcome == [ok : BOOLEAN, errno : Errnos]

Init ==
    /\ \E p \in Progs, n \in 1..MaxArgc, i \in Pids : run = Start(p, n, i)
    /\ twin = Idle

InitTwin ==
    /\ \E p \in Progs, n \in 1..MaxArgc, i \in Pids : run = Start(p, n, i)
    /\ twin = run

Do_sched_setaffinity ==
    /\ run.pc = "sched_setaffinity"
    /\ \E ok, ok2 \in BOOLEAN :
        /\ run' = sched_setaffinity(run, ok)
        /\ twin' = Follow("sched_setaffinity", sched_setaffinity(twin, ok2))

Do_sched_setscheduler ==
    /\ run.pc = "sched_setscheduler"
    /\ \E ok, ok2 \in BOOLEAN :
        /\ run' = sched_setscheduler(run, ok)
        /\ twin' = Follow("sched_setscheduler", sched_setscheduler(twin, ok2))

Do_mlockall ==
    /\ run.pc = "mlockall"
    /\ \E ok, ok2 \in BOOLEAN :
        /\ run' = mlockall(run, ok)
        /\ twin' = Follow("mlockall", mlockall(twin, ok2))

Do_main ==
    /\ run.pc = "main"
    /\ run' = main(run, TRUE)
    /\ twin' = Follow("main", main(twin, TRUE))

Do_device ==
    /\ run.pc = "device"
    /\ \E o \in Outcome :
        /\ run' = device(run, o)
        /\ twin' = Follow("device", device(twin, o))

Do_evemu_new ==
    /\ run.pc = "evemu_new"
    /\ \E o \in BOOLEAN :
        /\ run' = evemu_new(run, o)
        /\ twin' = Follow("evemu_new", evemu_new(twin, o))

Do_evemu_read ==
    /\ run.pc = "evemu_read"
    /\ \E o \in [res : {-1, 0, 1}, name : Names, errno : Errnos] :
        /\ run' = evemu_read(run, o)
        /\ twin' = Follow("evemu_read", evemu_read(twin, o))

Do_evemu_set_name ==
    /\ run.pc = "evemu_set_name"
    /\ run' = evemu_set_name(run, TRUE)
    /\ twin' = Follow("evemu_set_name", evemu_set_name(twin, TRUE))

Do_evemu_create_managed ==
    /\ run.pc = "evemu_create_managed"
    /\ \E o \in [res : {-1, 0}, errno : Errnos] :
        /\ run' = evemu_create_managed(run, o)
        /\ twin' = Follow("evemu_create_managed", evemu_create_managed(twin, o))

Do_create_device_out ==
    /\ run.pc = "create_device_out"
    /\ \E o \in Errnos :
        /\ run' = create_device_out(run, o)
        /\ twin' = Follow("create_device_out", create_device_out(twin, o))

Do_evemu_device ==
    /\ run.pc = "evemu_device"
    /\ run' = evemu_device(run, TRUE)
    /\ twin' = Follow("evemu_device", evemu_device(twin, TRUE))

Do_evemu_get_devnode ==
    /\ run.pc = "evemu_get_devnode"
    /\ \E o \in BOOLEAN :
        /\ run' = evemu_get_devnode(run, o)
        /\ twin' = Follow("evemu_get_devnode", evemu_get_devnode(twin, o))

Do_open_node ==
    /\ run.pc = "open_node"
    /\ \E o \in Outcome :
        /\ run' = open_node(run, o)
        /\ twin' = Follow("open_node", open_node(twin, o))

Do_read ==
    /\ run.pc = "read"
    /\ \E res \in {-1, 0, 1} :
        /\ res > 0 => run.posReads < MaxReads
        /\ run' = read(run, res)
        /\ twin' = Follow("read", read(twin, res))

Do_hold_close ==
    /\ run.pc = "hold_close"
    /\ run' = hold_close(run, TRUE)
    /\ twin' = Follow("hold_close", hold_close(twin, TRUE))

Do_evemu_delete ==
    /\ run.pc = "evemu_delete"
    /\ run' = evemu_delete(run, TRUE)
    /\ twin' = Follow("evemu_delete", evemu_delete(twin, TRUE))

Do_device_ret ==
    /\ run.pc = "device_ret"
    /\ run' = device_ret(run, TRUE)
    /\ twin' = Follow("device_ret", device_ret(twin, TRUE))

Do_play ==
    /\ run.pc = "play"
    /\ \E o \in Outcome :
        /\ run' = play(run, o)
        /\ twin' = Follow("play", play(twin, o))

Do_fstat ==
    /\ run.pc = "fstat"
    /\ \E o \in [ok : BOOLEAN, errno : Errnos, chr : BOOLEAN, offset : Offsets] :
        /\ run' = fstat(run, o)
        /\ twin' = Follow("fstat", fstat(twin, o))

Do_play_from_stdin ==
    /\ run.pc = "play_from_stdin"
    /\ \E rec \in Recordings :
        /\ run' = play_from_stdin(run, rec)
        /\ twin' = Follow("play_from_stdin", play_from_stdin(twin, rec))

Do_fdopen ==
    /\ run.pc = "fdopen"
    /\ \E o \in Outcome :
        /\ run' = fdopen(run, o)
        /\ twin' = Follow("fdopen", fdopen(twin, o))

Do_play_from_file ==
    /\ run.pc = "play_from_file"
    /\ run' = play_from_file(run, TRUE)
    /\ twin' = Follow("play_from_file", play_from_file(twin, TRUE))

Do_evemu_play ==
    /\ run.pc = "evemu_play"
    /\ \E rec \in Recordings :
        /\ run' = evemu_play(run, rec)
        /\ twin' = Follow("evemu_play", evemu_play(twin, rec))

Do_evemu_play_event ==
    /\ run.pc = "evemu_play_event"
    /\ \E ok \in BOOLEAN :
        /\ run' = evemu_play_event(run, ok)
        /\ twin' = Follow("evemu_play_event", evemu_play_event(twin, ok))

Do_evemu_play_ret ==
    /\ run.pc = "evemu_play_ret"
    /\ run' = evemu_play_ret(run, TRUE)
    /\ twin' = Follow("evemu_play_ret", evemu_play_ret(twin, TRUE))

Do_play_from_file_out ==
    /\ run.pc = "play_from_file_out"
    /\ run' = play_from_file_out(run, TRUE)
    /\ twin' = Follow("play_from_file_out", play_from_file_out(twin, TRUE))

Do_play_close ==
    /\ run.pc = "play_close"
    /\ run' = play_close(run, TRUE)
    /\ twin' = Follow("play_close", play_close(twin, TRUE))

Next ==
    \/ Do_sched_setaffinity
    \/ Do_sched_setscheduler
    \/ Do_mlockall
    \/ Do_main
    \/ Do_device
    \/ Do_evemu_new
    \/ Do_evemu_read
    \/ Do_evemu_set_name
    \/ Do_evemu_create_managed
    \/ Do_create_device_out
    \/ Do_evemu_device
    \/ Do_evemu_get_devnode
    \/ Do_open_node
    \/ Do_read
    \/ Do_hold_close
    \/ Do_evemu_delete
    \/ Do_device_ret
    \/ Do_play
    \/ Do_fstat
    \/ Do_play_from_stdin
    \/ Do_fdopen
    \/ Do_play_from_file
    \/ Do_evemu_play
    \/ Do_evemu_play_event
    \/ Do_evemu_play_ret
    \/ Do_play_from_file_out
    \/ Do_play_close

Spec == Init /\ [][Next]_vars

SpecTwin == InitTwin /\ [][Next]_vars

(* ------------------------------ properties ----------------------------- *)

\* operation o appears in the log of run s
Did(s, o) == \E i \in DOMAIN s.ops : s.ops[i].op = o

\* line l was written to the error stream by run s
Said(s, l) == \E i \in DOMAIN s.err : s.err[i] = l

DeviceProgs == {"evemu-device", "lt-evemu-device"}

\* run s wrote a line other than a tuning failure to the error stream
Diagnosed(s) ==
    \E i \in DOMAIN s.err :
        s.err[i] \notin {"sched_setaffinity", "sched_setscheduler", "mlockall"}

\* the run is past play_from_file
PlayFromFileReturned(s) == s.pc \in {"play_close", "exit"}

\* C1: file mode teardown.  Once create_device has handed a device to
\* play_from_file, the handle is never deleted twice, and when
\* play_from_file has returned the handle has been deleted exactly once,
\* nothing is registered any more and the node descriptor, if it was opened,
\* is closed.
C1_FileModeTeardown ==
    run.created =>
        /\ run.deletes <= 1
        /\ PlayFromFileReturned(run) =>
              /\ run.deletes = 1
              /\ run.handle = "freed"
              /\ ~run.registered
              /\ run.fdst["node"] \in {"unopened", "closed"}
              /\ run.closes["node"] =
                     (IF run.fdst["node"] = "closed" THEN 1 ELSE 0)

\* C1 witness: a file-mode run whose replay failed has returned from
\* play_from_file with the node opened and closed again
C1_Witness ==
    /\ run.created
    /\ run.pc = "exit"
    /\ run.played = 1
    /\ run.playret # 0
    /\ run.fdst["node"] = "closed"

\* C2 (as claimed): after a create_device that failed once the handle was
\* allocated (the read or the registration failed), evemu_destroy has been
\* called on the handle, create_device has returned NULL and nothing is
\* registered.
C2_FailedCreateDestroys ==
    (run.failed /\ run.pc # "create_device_out") =>
        /\ run.destroys = 1
        /\ run.dev = "NULL"
        /\ ~run.registered

\* C3: when create_device failed and ran its cleanup, the errno its caller
\* sees is the errno of the failure, not the one evemu_destroy left.
C3_ErrnoPreserved ==
    (run.cleaned /\ run.pc \in {"evemu_device", "play_from_file"}) =>
        run.errno = run.failErrno

\* C3 witness: the cleanup ran, evemu_destroy left another errno than the
\* failure did, and create_device has returned
C3_Witness ==
    /\ run.cleaned
    /\ run.pc = "play_from_file"
    /\ run.cleanupErrno # run.failErrno

\* the replay command is past the S_ISCHR branch
Dispatched(s) == s.prog \notin DeviceProgs /\ s.statted

\* live mode: no device is created, and the replay (if reached) reads
\* standard input and writes the descriptor opened on the target
LiveModePart ==
    (Dispatched(run) /\ run.chr) =>
        /\ ~Did(run, "evemu_new")
        /\ ~Did(run, "evemu_create_managed")
        /\ ~Did(run, "fdopen")
        /\ run.pc = "exit" =>
              /\ run.played = 1
              /\ run.playSrc = "stdin"
              /\ run.playFd = "target"

\* C4 (as claimed): a character device target never creates a device and
\* replays standard input onto the target descriptor; any other target
\* runs play_from_file and always attempts the device creation.
C4_ModeSelection_Original ==
    /\ LiveModePart
    /\ (Dispatched(run) /\ ~run.chr /\ run.pc = "exit") =>
          /\ Did(run, "fdopen")
          /\ Did(run, "evemu_new")

\* C4 (amended): as claimed for a character device; any other target runs
\* play_from_file, which attempts the device creation exactly when fdopen
\* of the recording succeeded.
C4_ModeSelection ==
    /\ LiveModePart
    /\ (Dispatched(run) /\ ~run.chr /\ run.pc = "exit") =>
          /\ Did(run, "fdopen")
          /\ ~Did(run, "play_from_stdin")
          /\ run.playSrc # "stdin"
          /\ Did(run, "evemu_new") <=> run.fp

\* C4 witness: a file-mode run that wrapped the recording and went on to
\* create the device
C4_Witness ==
    /\ Dispatched(run)
    /\ ~run.chr
    /\ run.pc = "exit"
    /\ run.fp
    /\ Did(run, "evemu_create_managed")

\* C5 (as claimed): the create-device command exits with 0 when the
\* description was loaded, the device registered, its node opened and the
\* hold loop entered and ended, and with nonzero and a diagnostic exactly when
\* loading, registration or node open failed.
C5_DeviceExitStatus ==
    (run.prog \in DeviceProgs /\ run.pc = "exit" /\ run.argc >= 2) =>
        /\ run.held => run.status = 0
        /\ ~run.held => (run.status # 0 /\ Diagnosed(run))

\* a command-setup step of the replay command failed
SetupFailed(s) ==
    \/ Said(s, "could not open file or device")
    \/ Said(s, "failed to look at file")
    \/ Said(s, "could not open file")
    \/ Said(s, "could not create device")
    \/ Said(s, "can not determine device node")
    \/ Said(s, "error opening node")

\* C6 (as claimed): the replay command exits with nonzero whenever opening
\* the target, fstat, fdopen, create_device or opening the node failed.
C6_SetupFailureExitStatus ==
    (run.prog \notin DeviceProgs /\ run.pc = "exit" /\ SetupFailed(run)) =>
        run.status # 0

\* evemu_play was called and its caller has looked at what it returned
Replayed(s) ==
    s.played > 0 /\ s.pc \notin {"evemu_play_event", "evemu_play_ret"}

\* C7: once the target was opened and its metadata read, the replay command
\* exits with 0 whatever evemu_play returned, and a failed evemu_play has
\* left its line on the error stream.
C7_ReplayFailureKeepsStatus ==
    /\ (run.statted /\ run.pc = "exit") => run.status = 0
    /\ (Replayed(run) /\ run.playret # 0) =>
          Said(run, "could not replay device")
    /\ (Replayed(run) /\ run.playret = 0) =>
          ~Said(run, "could not replay device")

\* C7 witness: a live-mode run whose replay failed has exited
C7_Witness ==
    /\ run.statted
    /\ run.chr
    /\ run.pc = "exit"
    /\ run.played = 1
    /\ run.playret # 0

\* C8: in the hold loop, as long as the loop is running every read so far
\* returned a positive count; once it is left, the last read returned zero or
\* less and there was exactly one read more than positive results; the
\* descriptor is closed exactly once, after the loop.
C8_HoldLoop ==
    run.prog \in DeviceProgs =>
        /\ run.pc = "read" =>
              /\ run.reads = run.posReads
              /\ run.lastRead > 0
              /\ run.closes["node"] = 0
        /\ (run.reads > 0 /\ run.pc # "read") =>
              /\ run.reads = run.posReads + 1
              /\ run.lastRead <= 0
        /\ run.pc = "hold_close" => run.closes["node"] = 0
        /\ run.held =>
              /\ run.closes["node"] = 1
              /\ run.fdst["node"] = "closed"
              /\ run.reads = run.posReads + 1

\* C8 witness: the hold loop ended at end of file after two positive reads
C8_Witness ==
    /\ run.held
    /\ run.posReads = 2
    /\ run.reads = 3
    /\ run.lastRead = 0

TuningOrder == <<"sched_setaffinity", "sched_setscheduler", "mlockall">>

\* C9: the tuning steps attempted so far are a prefix of (CPU pinning,
\* real-time scheduler, memory locking), each at most once; as soon as main
\* goes on, and before any file, device or replay operation, all three have
\* been attempted.
C9_TuningOnceFirst ==
    /\ Len(run.tuned) <= 3
    /\ \A i \in DOMAIN run.tuned : run.tuned[i].step = TuningOrder[i]
    /\ (Len(run.ops) > 0 \/ run.pc \notin
           {"sched_setaffinity", "sched_setscheduler", "mlockall"}) =>
          Len(run.tuned) = 3

\* C9 witness: a run in which the first tuning step failed went on to the
\* other two and then to device work
C9_Witness ==
    /\ Len(run.tuned) = 3
    /\ ~run.tuned[1].ok
    /\ ~run.tuned[2].ok
    /\ run.tuned[3].ok
    /\ Did(run, "evemu_play")

\* C10: two runs of the same command line that see the same outcome of every
\* file, device and replay call, whatever the outcomes of their tuning steps,
\* are at the same place, have performed the same operations and have the
\* same exit status.
C10_TuningNonInterference ==
    /\ twin.pc = run.pc
    /\ twin.ops = run.ops
    /\ twin.status = run.status

\* C10 witness: two finished runs whose tuning outcomes differed
C10_Witness ==
    /\ run.pc = "exit"
    /\ twin.pc = "exit"
    /\ Len(run.ops) > 3
    /\ \A i \in 1..3 : run.tuned[i].ok # twin.tuned[i].ok

\* C11: whenever evemu_create_managed has been reached, the name the device
\* was registered under is not empty: it is "evemu-<pid>" when the loaded
\* description had no name, and the description's name otherwise.
C11_NoNamelessDevice ==
    Did(run, "evemu_create_managed") =>
        /\ run.regName # <<>>
        /\ run.descName = <<>> => run.regName = <<"evemu-", run.pid>>
        /\ run.descName # <<>> => run.regName = run.descName

\* C11 witness: a description without a name reached the registration
C11_Witness ==
    /\ Did(run, "evemu_create_managed")
    /\ run.descName = <<>>
    /\ run.registered

\* C12: in live mode evemu_play gets start offset 0 even when the command
\* line carries an offset; in file mode it gets the offset of the command
\* line, or 0 when there is none.
C12_StartOffset ==
    run.played > 0 =>
        /\ run.playSrc = "stdin" => run.playOffset = 0
        /\ run.playSrc = "fp" =>
              run.playOffset = (IF run.argc = 3 THEN run.argOffset ELSE 0)

\* C12 witness: a live-mode replay started by a command line that carries a
\* nonzero offset
C12_Witness ==
    /\ run.played = 1
    /\ run.playSrc = "stdin"
    /\ run.argc = 3
    /\ run.argOffset > 0

\* C13: in a replay session the writes that reached the sink are the first
\* records of the recording, one write per record and in the order of the
\* recording, with non-decreasing target times and never before the target
\* time; a session that ended without a write failure has written all N
\* records.
C13_ReplayOrderAndCount ==
    run.played > 0 =>
        /\ Len(run.writes) <= Len(run.events)
        /\ Len(run.writes) = run.next - 1
        /\ \A i \in DOMAIN run.writes :
              /\ run.writes[i].ev = i
              /\ run.writes[i].target = Target(run, i)
              /\ run.writes[i].at >= run.writes[i].target
              /\ i > 1 => /\ run.writes[i - 1].target <= run.writes[i].target
                          /\ run.writes[i - 1].at <= run.writes[i].at
        /\ (run.pc # "evemu_play_event" /\ run.playret = 0) =>
              Len(run.writes) = Len(run.events)

\* C13 witness: a session with an offset replayed a recording of three
\* records, the later ones overdue at once, and ended with success
C13_Witness ==
    /\ run.pc = "exit"
    /\ run.playret = 0
    /\ run.playOffset > 0
    /\ Len(run.events) = 3
    /\ run.events[1] < run.events[3]
    /\ Len(run.writes) = 3

\* how often run s performed operation o on a
Count(s, o, a) ==
    Cardinality({i \in DOMAIN s.ops : s.ops[i].op = o /\ s.ops[i].arg = a})

\* in run s every operation o2 on a2 comes after an operation o1 on a1
\* whose result was v1
After(s, o2, a2, o1, a1, v1) ==
    \A j \in DOMAIN s.ops :
        (s.ops[j].op = o2 /\ s.ops[j].arg = a2) =>
            \E i \in 1..(j - 1) :
                s.ops[i].op = o1 /\ s.ops[i].arg = a1 /\ s.ops[i].val = v1

C15_NoLeakOnReturn ==
    run.pc = "exit" => \A f \in Fds : run.fdst[f] # "open"

\* C16 (as claimed): in the replay command no descriptor is closed twice
\* and close is never called on -1.
C16_NoDoubleClose ==
    run.prog \notin DeviceProgs =>
        /\ \A f \in Fds : run.closes[f] <= 1
        /\ run.closeBad = 0

\* the result of evemu_read in run s was positive
ReadPositive(s) ==
    \E i \in DOMAIN s.ops : s.ops[i].op = "evemu_read" /\ s.ops[i].val > 0

\* evemu_create_managed was called in run s and succeeded
Registered(s) ==
    \E i \in DOMAIN s.ops :
        s.ops[i].op = "evemu_create_managed" /\ s.ops[i].val = 0

\* create_device has just returned to its caller
CreateDeviceReturned(s) ==
    s.pc \in {"evemu_device", "play_from_file"}

\* C17 (as claimed): create_device returns a handle exactly when the read
\* result was positive and evemu_create_managed was called and succeeded; it
\* returns NULL for a negative or zero read result and for a failed
\* registration.
C17_HandleIsRegistered ==
    CreateDeviceReturned(run) =>
        (run.dev # "NULL" <=> (ReadPositive(run) /\ Registered(run)))

\* C18: in evemu_device the device is never deleted twice; from the moment
\* create_device returned it until open_and_hold_device has returned (the
\* node lookup, the open, the hold loop and its close) it has not been
\* deleted, and it is registered as long as the loop reads; once
\* evemu_device has returned it has been deleted exactly once, after the
\* hold.
C18_DeviceAliveDuringHold ==
    run.prog \in DeviceProgs =>
        /\ run.deletes <= 1
        /\ run.pc \in {"evemu_get_devnode", "open_node", "read",
                       "hold_close", "evemu_delete"} =>
              /\ run.deletes = 0
              /\ run.handle = "allocated"
        /\ run.pc \in {"read", "hold_close"} => run.registered
        /\ (run.pc \in {"device_ret", "exit"} /\ run.dev # "NULL") =>
              /\ run.deletes = 1
              /\ Count(run, "evemu_delete", "") = 1
              /\ \A i, j \in DOMAIN run.ops :
                    (run.ops[i].op = "evemu_delete" /\ run.ops[j].op \in
                        {"evemu_get_devnode", "open", "read", "close"}) =>
                        j < i
              /\ Did(run, "read") => run.held

\* C18 witness: the device was held over two reads and deleted after the
\* hold loop ended
C18_Witness ==
    /\ run.prog \in DeviceProgs
    /\ run.pc = "device_ret"
    /\ run.held
    /\ run.reads = 2
    /\ run.deletes = 1

====
